---- MODULE Spec2Model ----
(***************************************************************************)
(* Nutrition Tracker (main.py): prompt for a food item, query the          *)
(* Nutritionix API, format the answer, save it to a dated text file, move  *)
(* the file into 'logs' and e-mail the report with the file attached.      *)
(*                                                                         *)
(* Spec        the run of main(), one step per call it makes               *)
(* SpecFormat  format_nutritional_data called directly on any raw_data     *)
(* SpecSave    save_to_file called directly on any food_item string        *)
(***************************************************************************)
EXTENDS Integers, Sequences, FiniteSets, TLC

\* ------------------------------------------------------------------ bounds
\* longest line the user types at the prompt
MaxLen == 3
\* most food records in one API answer
MaxFoods == 2
\* most inputs the prompt loop rejects in one run
MaxPrompts == 2

\* ------------------------------------------------------- characters, strings
\* A string is a sequence of one-character strings.
LowerLetters == <<"a", "e", "g", "l", "n", "p", "r", "t">>
UpperLetters == <<"A", "E", "G", "L", "N", "P", "R", "T">>
Range(s) == {s[i] : i \in DOMAIN s}
Letters == Range(LowerLetters) \cup Range(UpperLetters)
Digits == {"7"}
Whitespace == {" ", "\t"}

\* the characters the user can type
InputChars == {"a", " ", "\t", "7", "_", "!"}

isalpha(c) == c \in Letters
isspace(c) == c \in Whitespace
isalnum(c) == c \in Letters \cup Digits

IndexOf(s, c) == CHOOSE i \in DOMAIN s : s[i] = c
upper(c) == IF c \in Range(LowerLetters) THEN UpperLetters[IndexOf(LowerLetters, c)] ELSE c
lower(c) == IF c \in Range(UpperLetters) THEN LowerLetters[IndexOf(UpperLetters, c)] ELSE c

\* str.title(): a letter that follows a non-letter is upper-cased, any other
\* letter is lower-cased
title(s) ==
    [i \in DOMAIN s |->
        IF i = 1 \/ ~isalpha(s[i - 1]) THEN upper(s[i]) ELSE lower(s[i])]

RECURSIVE lstrip(_)
lstrip(s) == IF s # <<>> /\ isspace(Head(s)) THEN lstrip(Tail(s)) ELSE s

RECURSIVE rstrip(_)
rstrip(s) ==
    IF s # <<>> /\ isspace(s[Len(s)]) THEN rstrip(SubSeq(s, 1, Len(s) - 1)) ELSE s

\* str.strip()
strip(s) == rstrip(lstrip(s))

\* str.replace(old, new) for one-character old and new
replace(s, old, new) == [i \in DOMAIN s |-> IF s[i] = old THEN new ELSE s[i]]

StringsUpTo(n) == UNION {[1..k -> InputChars] : k \in 0..n}

\* --------------------------------------------------------------- JSON values
\* What response.json() can put under a key of a food record.  v is the value
\* of a number: an int in units, a finite float in thousandths.
Missing == [t |-> "missing"]
Null == [t |-> "null"]
IntV(n) == [t |-> "int", v |-> n]
FloatV(thousandths) == [t |-> "float", v |-> thousandths]
BoolV(b) == [t |-> "bool", v |-> IF b THEN 1 ELSE 0]
StrV(s) == [t |-> "str", s |-> s]
\* NaN and Infinity (json.loads reads NaN, Infinity and 1e999 as such floats)
NaN == [t |-> "nan"]
Inf == [t |-> "inf"]
\* an int beyond the range of a float, such as 10**400
HugeInt == [t |-> "hugeint"]

Apple == <<"a", "p", "p", "l", "e">>
GreenTea == <<"g", "r", "e", "e", "n", " ", "T", "E", "A">>
Cup == <<"c", "u", "p">>
NA == <<"N", "/", "A">>
Serving == <<"s", "e", "r", "v", "i", "n", "g">>

NutrientValues ==
    {Missing, Null, IntV(95), FloatV(12346), FloatV(-4), BoolV(TRUE),
     StrV(<<"7">>), NaN, Inf, HugeInt}

\* the seven nutrient keys, in the order the report lists them
NutrientKeys ==
    <<"nf_calories", "nf_protein", "nf_total_fat", "nf_total_carbohydrate",
      "nf_dietary_fiber", "nf_sugars", "nf_sodium">>
NutrientLabels ==
    <<"Calories", "Protein", "Total Fat", "Total Carbohydrates",
      "Dietary Fiber", "Sugars", "Sodium">>
NutrientUnits == <<"kcal", "g", "g", "g", "g", "g", "mg">>

\* dict.get(key, default)
get(d, key, default) == IF d[key] = Missing THEN default ELSE d[key]

\* bool(x) of a JSON value
truthy(x) ==
    CASE x.t \in {"missing", "null"} -> FALSE
      [] x.t = "list" -> x.items # <<>>
      [] x.t = "dict" -> x.foods # Missing \/ x.other
      [] x.t = "str" -> x.s # <<>>
      [] x.t \in {"int", "float", "bool"} -> x.v # 0
      [] OTHER -> TRUE

\* ------------------------------------------------- format_nutritional_data
\* digits after the decimal point in the format specification .2f
Precision == 2
\* "-" * 30
SeparatorWidth == 30

RECURSIVE Pow10(_)
Pow10(n) == IF n = 0 THEN 1 ELSE 10 * Pow10(n - 1)

Abs(n) == IF n < 0 THEN -n ELSE n

\* the p decimal digits of n, most significant first
DecimalDigits(n, p) == [i \in 1..p |-> (n \div Pow10(p - i)) % 10]

\* a float given in thousandths, rounded to Precision digits (half to even)
RoundToPrecision(thousandths) ==
    LET drop == Pow10(3 - Precision)
        q == thousandths \div drop
        r == thousandths % drop
    IN  IF 2 * r > drop \/ (2 * r = drop /\ q % 2 = 1) THEN q + 1 ELSE q

\* isinstance(x, (int, float)); bool is a subclass of int
IsIntOrFloat(x) == x.t \in {"int", "bool", "hugeint", "float", "nan", "inf"}

Returned(v) == [status |-> "return", value |-> v]
Raised(e) == [status |-> "raise", exc |-> e]

\* f"{x:.2f}" for x with isinstance(x, (int, float))
Format2f(x) ==
    CASE x.t \in {"int", "bool"} ->
            Returned([k |-> "decimal", neg |-> x.v < 0, whole |-> Abs(x.v),
                      frac |-> DecimalDigits(0, Precision)])
      [] x.t = "float" ->
            LET n == RoundToPrecision(Abs(x.v))
            IN  Returned([k |-> "decimal", neg |-> x.v < 0,
                          whole |-> n \div Pow10(Precision),
                          frac |-> DecimalDigits(n % Pow10(Precision), Precision)])
      [] x.t = "nan" -> Returned([k |-> "nan"])
      [] x.t = "inf" -> Returned([k |-> "inf"])
      [] x.t = "hugeint" -> Raised("OverflowError")

NotAvailable == [k |-> "N/A"]

\* one of the seven lines "  Label: 1.23 unit" or "  Label: N/A"
NutrientLine(food, i) ==
    LET x == get(food, NutrientKeys[i], Null)
    IN  IF IsIntOrFloat(x)
        THEN LET f == Format2f(x)
             IN  IF f.status = "raise" THEN f
                 ELSE Returned([kind |-> "nutrient", label |-> NutrientLabels[i],
                                text |-> f.value, unit |-> NutrientUnits[i]])
        ELSE Returned([kind |-> "nutrient", label |-> NutrientLabels[i],
                       text |-> NotAvailable, unit |-> ""])

\* the first exception among results computed in order, or else all of
\* their values in order
InOrder(results) ==
    LET raising == {i \in DOMAIN results : results[i].status = "raise"}
    IN  IF raising # {}
        THEN results[CHOOSE i \in raising : \A j \in raising : i <= j]
        ELSE Returned([i \in DOMAIN results |-> results[i].value])

\* the seven nutrient lines of a record, evaluated in order
NutrientLines(food) == InOrder([i \in DOMAIN NutrientKeys |-> NutrientLine(food, i)])

RECURSIVE Concat(_)
Concat(seqs) == IF seqs = <<>> THEN <<>> ELSE Head(seqs) \o Concat(Tail(seqs))

Repeat(c, n) == [i \in 1..n |-> c]
BlankLine == [kind |-> "blank"]
SeparatorLine == [kind |-> "separator", s |-> Repeat("-", SeparatorWidth)]
HeaderLine == [kind |-> "literal", s |-> "--- Nutritional Information ---"]
\* a text: its lines
Text(lines) == [t |-> "text", lines |-> lines]
NoDataText == Text(<<[kind |-> "literal", s |-> "No nutritional data available."]>>)

\* the body of the loop over raw_data['foods'] for one element
FoodBlock(food) ==
    IF food.t # "dict" THEN Raised("AttributeError")
    ELSE LET name == get(food, "food_name", StrV(NA))
         IN  IF name.t # "str" THEN Raised("AttributeError")
             ELSE LET lines == NutrientLines(food)
                  IN  IF lines.status = "raise" THEN lines
                      ELSE Returned(
                            <<BlankLine,
                              [kind |-> "food", name |-> title(name.s),
                               qty |-> get(food, "serving_qty", IntV(1)),
                               unit |-> get(food, "serving_unit", StrV(Serving))]>>
                            \o lines.value \o <<SeparatorLine>>)

\* a loop that puts the separator between the records only
FoodBlocks_SeparatorBetween(foods) ==
    LET blocks == InOrder([i \in DOMAIN foods |-> FoodBlock(foods[i])])
        all == Concat(blocks.value)
    IN  IF blocks.status = "raise" THEN blocks
        ELSE Returned(SubSeq(all, 1, Len(all) - 1))

\* the loop over raw_data['foods']
FoodBlocks(foods) ==
    LET blocks == InOrder([i \in DOMAIN foods |-> FoodBlock(foods[i])])
    IN  IF blocks.status = "raise" THEN blocks ELSE Returned(Concat(blocks.value))

\* a formatter that tests raw_data only, not raw_data.get('foods')
format_nutritional_data_NoFoodsTest(raw_data) ==
    IF ~truthy(raw_data) THEN Returned(NoDataText)
    ELSE IF raw_data.t # "dict" THEN Raised("AttributeError")
    ELSE IF raw_data.foods = Missing THEN Raised("KeyError")
    ELSE IF raw_data.foods.t # "list" THEN Raised("TypeError")
    ELSE LET blocks == FoodBlocks(raw_data.foods.items)
         IN  IF blocks.status = "raise" THEN blocks
             ELSE Returned(Text(<<HeaderLine>> \o blocks.value))

format_nutritional_data(raw_data) ==
    IF ~truthy(raw_data) THEN Returned(NoDataText)
    ELSE IF raw_data.t # "dict" THEN Raised("AttributeError")
    ELSE IF ~truthy(raw_data.foods) THEN Returned(NoDataText)
    ELSE IF raw_data.foods.t # "list" THEN Raised("TypeError")
    ELSE LET blocks == FoodBlocks(raw_data.foods.items)
         IN  IF blocks.status = "raise" THEN blocks
             ELSE Returned(Text(<<HeaderLine>> \o blocks.value))

\* ------------------------------------------------------------ save_to_file
\* what save_to_file keeps of food_item: c.isalnum() or c in (' ', '_')
KeptInFileName(c) == isalnum(c) \/ c \in {" ", "_"}

\* a sanitization that leaves the spaces in
sanitized_food_item_SpacesKept(food_item) == SelectSeq(food_item, KeptInFileName)

sanitized_food_item(food_item) ==
    replace(SelectSeq(food_item, KeptInFileName), " ", "_")

\* f"{filename_prefix}_{sanitized_food_item}_{current_date}.txt"
filename(food_item, current_date) ==
    [prefix |-> "nutrition_data", food |-> sanitized_food_item(food_item),
     date |-> current_date, ext |-> ".txt"]

\* a path: the directory ("." is the working directory) and the file name
Path(dir, name) == [dir |-> dir, name |-> name]

\* os.path.join(logs_dir, os.path.basename(original_file_path))
new_file_path(path) == Path("logs", path.name)

\* ------------------------------------------------------ get_user_food_input
\* a prompt loop without the test for letters and spaces
get_user_food_input_NoCharTest(line) ==
    IF strip(line) = <<>> THEN Null ELSE StrV(strip(line))

\* one pass of the loop on the line the user typed: the value returned, or
\* Null when the loop goes round again
get_user_food_input(line) ==
    LET food_item == strip(line)
    IN  IF food_item = <<>> THEN Null
        ELSE IF ~(\A i \in DOMAIN food_item :
                    isalpha(food_item[i]) \/ isspace(food_item[i])) THEN Null
        ELSE StrV(food_item)

\* ----------------------------------------------------- get_nutritional_info
List(items) == [t |-> "list", items |-> items]
\* a JSON object: its 'foods' value and whether it has any other key
Dict(foods, other) == [t |-> "dict", foods |-> foods, other |-> other]
\* a body response.json() cannot decode: requests >= 2.27 raises its own
\* JSONDecodeError (a RequestException), older versions a plain ValueError
Undecodable(exc) == [t |-> "undecodable", exc |-> exc]

\* what requests.post met: a transport exception, or a status and a body
Failed(exc) == [exc |-> exc]
Response(status, body) == [exc |-> "none", status |-> status, body |-> body]

\* a get_nutritional_info without the test of 'foods'
get_nutritional_info_NoFoodsTest(resp) ==
    IF resp.exc \in {"ConnectionError", "Timeout", "TooManyRedirects"}
    THEN Returned(Null)
    ELSE IF resp.status >= 400 THEN Returned(Null)
    ELSE IF resp.body.t = "undecodable"
         THEN (IF resp.body.exc = "JSONDecodeError" THEN Returned(Null)
               ELSE Raised(resp.body.exc))
    ELSE Returned(resp.body)

\* the try block of get_nutritional_info on what requests.post met
get_nutritional_info(resp) ==
    IF resp.exc \in {"ConnectionError", "Timeout", "TooManyRedirects"}
    THEN Returned(Null)
    ELSE IF resp.status >= 400 THEN Returned(Null)
    ELSE IF resp.body.t = "undecodable"
         THEN (IF resp.body.exc = "JSONDecodeError" THEN Returned(Null)
               ELSE Raised(resp.body.exc))
    ELSE IF resp.body.t # "dict" THEN Raised("AttributeError")
    ELSE IF ~truthy(resp.body.foods) THEN Returned(Null)
    ELSE Returned(resp.body)

\* ------------------------------------------------------------------ inputs
FoodRecord(name, qty, unit, nutrients) ==
    [t |-> "dict", food_name |-> name, serving_qty |-> qty, serving_unit |-> unit,
     nf_calories |-> nutrients[1], nf_protein |-> nutrients[2],
     nf_total_fat |-> nutrients[3], nf_total_carbohydrate |-> nutrients[4],
     nf_dietary_fiber |-> nutrients[5], nf_sugars |-> nutrients[6],
     nf_sodium |-> nutrients[7]]

\* seven nutrient values: a everywhere but b at key k
OneOff(k, a, b) == [i \in 1..7 |-> IF i = k THEN b ELSE a]

NameValues == {Missing, Null, IntV(7), StrV(Apple), StrV(GreenTea)}
Servings == {<<Missing, Missing>>, <<IntV(2), StrV(Cup)>>}

\* every value at every nutrient key, next to every value at the other keys
FoodRecords ==
    {FoodRecord(n, sv[1], sv[2], OneOff(k, a, b)) :
        n \in NameValues, sv \in Servings,
        k \in 1..7, a \in NutrientValues, b \in NutrientValues}

\* the records that lists of more than one record are made of
ApiRecords ==
    {FoodRecord(StrV(Apple), Missing, Missing,
                <<IntV(95), FloatV(500), Missing, Missing, Missing, Missing, Missing>>),
     FoodRecord(StrV(GreenTea), IntV(2), StrV(Cup), OneOff(1, FloatV(12346), Null)),
     FoodRecord(Null, Missing, Missing, OneOff(1, IntV(95), IntV(95))),
     FoodRecord(StrV(Apple), Missing, Missing, OneOff(7, IntV(95), HugeInt)),
     StrV(Apple)}

FoodLists(records, n) == UNION {[1..k -> records] : k \in 1..n}

\* raw data with no food record: {}, {"message": ...}, {"foods": null},
\* {"foods": []}
ZeroRecordBodies ==
    {Dict(Missing, FALSE), Dict(Missing, TRUE), Dict(Null, TRUE), Dict(List(<<>>), TRUE)}

FoodBodies == {Dict(List(l), FALSE) : l \in FoodLists(ApiRecords, MaxFoods)}

Responses ==
    {Failed(e) : e \in {"ConnectionError", "Timeout", "TooManyRedirects"}}
    \cup {Response(st, Dict(Missing, TRUE)) : st \in {401, 500}}
    \cup {Response(200, b) :
            b \in ZeroRecordBodies \cup FoodBodies
                  \cup {Undecodable("JSONDecodeError"), Undecodable("ValueError"),
                        List(<<>>), List(<<IntV(7)>>)}}

\* what format_nutritional_data is called with when called on its own
RawData ==
    {Null} \cup ZeroRecordBodies \cup FoodBodies
    \cup {Dict(List(<<r>>), FALSE) : r \in FoodRecords}

Dates == {"2025-07-30", "2025-07-31"}

\* ------------------------------------------------------------------- state
VARIABLES
    pc,                      \* where main() is: the call it makes next
    prompts,                 \* inputs the prompt loop has rejected
    food_item,               \* main's food_item
    http,                    \* the API request made and what came back
    nutritional_data_raw,    \* main's nutritional_data_raw
    formatted_data,          \* main's formatted_data
    original_file_path,      \* main's original_file_path
    email,                   \* the call of send_email: its arguments and outcome
    files,                   \* the files on disk: path and contents
    logs_dir,                \* 'logs' on disk: "absent", "dir" or "file"
    calls,                   \* the calls made so far, in order
    failure                  \* how the run ended early: Null while it has not

vars ==
    <<pc, prompts, food_item, http, nutritional_data_raw, formatted_data,
      original_file_path, email, files, logs_dir, calls, failure>>

\* a Python variable not assigned yet
Unset == [t |-> "unset"]

\* main() got to an else branch and printed why it stops
Aborted(at) == [kind |-> "aborted", at |-> at, exc |-> "none"]
\* an exception nothing catches ended main()
Uncaught(at, exc) == [kind |-> "uncaught", at |-> at, exc |-> exc]

Init ==
    /\ pc = "get_user_food_input"
    /\ prompts = 0
    /\ food_item = Unset
    /\ http = Unset
    /\ nutritional_data_raw = Unset
    /\ formatted_data = Unset
    /\ original_file_path = Unset
    /\ email = Unset
    /\ files = {}
    /\ logs_dir \in {"absent", "dir", "file"}
    /\ calls = <<>>
    /\ failure = Null

\* --------------------------------------------------------------- the steps
\* main.py:331 and one pass of the loop of get_user_food_input: the user
\* types a line, or the input stream is at its end
ReadInput ==
    /\ pc = "get_user_food_input"
    /\ \/ \E line \in StringsUpTo(MaxLen) :
            LET r == get_user_food_input(line)
            IN  IF r = Null
                THEN /\ prompts < MaxPrompts
                     /\ prompts' = prompts + 1
                     /\ UNCHANGED <<pc, food_item, failure>>
                ELSE /\ food_item' = r
                     /\ IF truthy(r)
                        THEN pc' = "get_nutritional_info" /\ failure' = failure
                        ELSE pc' = "end" /\ failure' = Aborted("get_user_food_input")
                     /\ UNCHANGED prompts
       \/ /\ pc' = "end"
          /\ failure' = Uncaught("get_user_food_input", "EOFError")
          /\ UNCHANGED <<prompts, food_item>>
    /\ UNCHANGED <<http, nutritional_data_raw, formatted_data,
                   original_file_path, email, files, logs_dir, calls>>

\* main.py:336-339: the API call and the test of what it returned
Fetch ==
    /\ pc = "get_nutritional_info"
    /\ \E resp \in Responses :
          LET r == get_nutritional_info(resp)
          IN  /\ http' = [query |-> food_item.s, resp |-> resp]
              /\ IF r.status = "raise"
                 THEN /\ pc' = "end"
                      /\ failure' = Uncaught("get_nutritional_info", r.exc)
                      /\ UNCHANGED nutritional_data_raw
                 ELSE /\ nutritional_data_raw' = r.value
                      /\ IF truthy(r.value)
                         THEN pc' = "format_nutritional_data" /\ failure' = failure
                         ELSE pc' = "end" /\ failure' = Aborted("get_nutritional_info")
    /\ calls' = Append(calls, "get_nutritional_info")
    /\ UNCHANGED <<prompts, food_item, formatted_data, original_file_path,
                   email, files, logs_dir>>

\* main.py:341-343
Format ==
    /\ pc = "format_nutritional_data"
    /\ LET r == format_nutritional_data(nutritional_data_raw)
       IN  IF r.status = "raise"
           THEN /\ pc' = "end"
                /\ failure' = Uncaught("format_nutritional_data", r.exc)
                /\ UNCHANGED formatted_data
           ELSE /\ formatted_data' = r.value
                /\ pc' = "save_to_file"
                /\ UNCHANGED failure
    /\ calls' = Append(calls, "format_nutritional_data")
    /\ UNCHANGED <<prompts, food_item, http, nutritional_data_raw, original_file_path,
                   email, files, logs_dir>>

\* open(filename, 'w') followed by f.write(data)
WriteFile(fs, path, data) ==
    {f \in fs : f.path # path} \cup {[path |-> path, data |-> data]}

\* a main() that goes on to the move and the mail whatever save_to_file
\* returned
AfterSaveUnchecked(returned) == "os.makedirs"

\* a main() that calls save_to_file again when it returned None
AfterSaveRetrying(returned) == IF returned # Null THEN "os.makedirs" ELSE "save_to_file"

\* main.py:350-351 and 394-396: where main() goes with what save_to_file
\* returned, the file name or None
AfterSave(returned) == IF returned # Null THEN "os.makedirs" ELSE "end"

\* main.py:347-350 and save_to_file: the write succeeds, or open() or write()
\* raises an IOError (what was written before a failing write is lost), or
\* the text cannot be encoded (a ValueError, which is no IOError)
Save ==
    /\ pc = "save_to_file"
    /\ \E current_date \in Dates, err \in {"none", "open", "write", "encode"} :
          LET path == Path(".", filename(food_item.s, current_date))
              returned == IF err = "none" THEN path ELSE Null
          IN  /\ files' = CASE err = "none" -> WriteFile(files, path, formatted_data)
                            [] err = "open" -> files
                            [] OTHER -> WriteFile(files, path, Text(<<>>))
              /\ IF err = "encode"
                 THEN /\ pc' = "end"
                      /\ failure' = Uncaught("save_to_file", "UnicodeEncodeError")
                      /\ UNCHANGED original_file_path
                 ELSE /\ original_file_path' = returned
                      /\ pc' = AfterSave(returned)
                      /\ failure' = IF returned = Null THEN Aborted("save_to_file")
                                    ELSE failure
    /\ calls' = Append(calls, "save_to_file")
    /\ UNCHANGED <<prompts, food_item, http, nutritional_data_raw, formatted_data,
                   email, logs_dir>>

\* main.py:358: os.makedirs(logs_dir, exist_ok=True), outside any try block.
\* It raises FileExistsError when 'logs' is a regular file, and may raise
\* another OSError (permissions, disk) when it has to create the directory.
MakeDirs ==
    /\ pc = "os.makedirs"
    /\ \/ /\ logs_dir \in {"absent", "dir"}
          /\ logs_dir' = "dir"
          /\ pc' = "os.rename"
          /\ UNCHANGED failure
       \/ /\ logs_dir \in {"absent", "file"}
          /\ pc' = "end"
          /\ failure' = Uncaught("os.makedirs",
                                 IF logs_dir = "file" THEN "FileExistsError"
                                 ELSE "PermissionError")
          /\ UNCHANGED logs_dir
    /\ calls' = Append(calls, "os.makedirs")
    /\ UNCHANGED <<prompts, food_item, http, nutritional_data_raw, formatted_data,
                   original_file_path, email, files>>

\* os.rename(src, dst) when it succeeds
RenameFile(fs, src, dst) ==
    {f \in fs : f.path \notin {src, dst}}
    \cup {[path |-> dst, data |-> f.data] : f \in {g \in fs : g.path = src}}

\* main.py:363-376: the move into 'logs'; an OSError is caught and the path
\* left as it was
Move ==
    /\ pc = "os.rename"
    /\ \/ /\ files' = RenameFile(files, original_file_path,
                                 new_file_path(original_file_path))
          /\ original_file_path' = new_file_path(original_file_path)
       \/ UNCHANGED <<files, original_file_path>>
    /\ pc' = "send_email"
    /\ calls' = Append(calls, "os.rename")
    /\ UNCHANGED <<prompts, food_item, http, nutritional_data_raw, formatted_data,
                   email, logs_dir, failure>>

\* a send_email that gives up when the file cannot be attached
send_email_AttachmentRequired(body, attachment_path, fs, readable, smtp) ==
    LET found == {f \in fs : f.path = attachment_path}
        attached == attachment_path # Null /\ readable /\ found # {}
    IN  [body |-> body,
         attachment_path |-> attachment_path,
         attachment |-> IF attached THEN (CHOOSE f \in found : TRUE).data ELSE Null,
         smtp |-> IF attached THEN smtp ELSE "none",
         submitted |-> attached /\ smtp \in {"ok", "send"},
         email_sent_successfully |-> attached /\ smtp = "ok"]

\* send_email(subject, body, to_email, attachment_path) with the files on
\* disk, whether the file can be read, and what the SMTP session meets: "ok",
\* or a failure to connect, to log in (SMTPAuthenticationError) or to send.
\* The message has the body, and the file if open() and read() succeed
\* (main.py:273-296); send_message is reached once connected and logged in
\* (main.py:303-307); the result is True only if nothing raised.
send_email(body, attachment_path, fs, readable, smtp) ==
    LET found == {f \in fs : f.path = attachment_path}
        attached == attachment_path # Null /\ readable /\ found # {}
    IN  [body |-> body,
         attachment_path |-> attachment_path,
         attachment |-> IF attached THEN (CHOOSE f \in found : TRUE).data ELSE Null,
         smtp |-> smtp,
         submitted |-> smtp \in {"ok", "send"},
         email_sent_successfully |-> smtp = "ok"]

\* a main() that removes the saved file when the mail could not be sent
SendEmail_RollingBack ==
    /\ pc = "send_email"
    /\ \E readable \in BOOLEAN, smtp \in {"ok", "connect", "login", "send"} :
          LET sent == send_email(formatted_data, original_file_path, files, readable, smtp)
          IN  /\ email' = sent
              /\ files' = IF sent.email_sent_successfully THEN files
                          ELSE {f \in files : f.path # original_file_path}
    /\ pc' = "end"
    /\ calls' = Append(calls, "send_email")
    /\ UNCHANGED <<prompts, food_item, http, nutritional_data_raw, formatted_data,
                   original_file_path, logs_dir, failure>>

\* main.py:380-393: the call of send_email with the path the file is at;
\* main() prints whether it succeeded and ends
SendEmail ==
    /\ pc = "send_email"
    /\ \E readable \in BOOLEAN, smtp \in {"ok", "connect", "login", "send"} :
          email' = send_email(formatted_data, original_file_path, files, readable, smtp)
    /\ pc' = "end"
    /\ calls' = Append(calls, "send_email")
    /\ UNCHANGED <<prompts, food_item, http, nutritional_data_raw, formatted_data,
                   original_file_path, files, logs_dir, failure>>

Next == ReadInput \/ Fetch \/ Format \/ Save \/ MakeDirs \/ Move \/ SendEmail

\* a run of main()
Spec == Init /\ [][Next]_vars

\* format_nutritional_data(raw_data) called on its own
InitFormat ==
    /\ pc = "format_nutritional_data"
    /\ prompts = 0
    /\ food_item = Unset
    /\ http = Unset
    /\ nutritional_data_raw \in RawData
    /\ formatted_data = Unset
    /\ original_file_path = Unset
    /\ email = Unset
    /\ files = {}
    /\ logs_dir = "absent"
    /\ calls = <<>>
    /\ failure = Null

SpecFormat == InitFormat /\ [][Format]_vars

\* save_to_file(data, food_item) called on its own
InitSave ==
    /\ pc = "save_to_file"
    /\ prompts = 0
    /\ food_item \in {StrV(s) : s \in StringsUpTo(MaxLen)}
    /\ http = Unset
    /\ nutritional_data_raw = Unset
    /\ formatted_data = NoDataText
    /\ original_file_path = Unset
    /\ email = Unset
    /\ files = {}
    /\ logs_dir = "absent"
    /\ calls = <<>>
    /\ failure = Null

SpecSave == InitSave /\ [][Save]_vars

\* ------------------------------------------------------------- properties
Count(seq, x) == Cardinality({i \in DOMAIN seq : seq[i] = x})
IsPath(p) == p \notin {Unset, Null}

\* what the API request met is one of the failures: a transport error, a
\* status other than success, a body that is no JSON object, or an object
\* whose 'foods' is missing, null or empty
FetchFailure(resp) ==
    \/ resp.exc # "none"
    \/ resp.status # 200
    \/ resp.body.t # "dict"
    \/ resp.body.foods \in {Missing, Null, List(<<>>)}

\* C1: whenever the API request has met a failure (HTTP 401, another
\* non-success status, a connection error, a timeout, or a success answer
\* whose 'foods' is missing or empty), the run has ended with the request as
\* its only call: nothing was formatted, saved, moved or mailed, and no file
\* and no 'logs' directory was created.
C1_FetchFailureAborts ==
    (http # Unset /\ FetchFailure(http.resp)) =>
        /\ pc = "end"
        /\ calls = <<"get_nutritional_info">>
        /\ formatted_data = Unset
        /\ original_file_path = Unset
        /\ email = Unset
        /\ files = {}

\* a run that ended because the API answered with an empty 'foods' list
C1_Witness ==
    /\ pc = "end"
    /\ http # Unset
    /\ http.resp = Response(200, Dict(List(<<>>), TRUE))
    /\ failure = Aborted("get_nutritional_info")

\* C2: in every finished run in which save_to_file succeeded, send_email was
\* called exactly once, whatever happened while 'logs' was created and the
\* file moved; its attachment path is the path under 'logs' if the move
\* succeeded and the path save_to_file returned if not.
C2_RelocationFailureStillDelivers ==
    (pc = "end" /\ IsPath(original_file_path)) =>
        /\ Count(calls, "send_email") = 1
        /\ email # Unset
        /\ LET moved == \E f \in files : f.path.dir = "logs"
           IN  email.attachment_path.dir = IF moved THEN "logs" ELSE "."
        /\ \E f \in files : f.path = email.attachment_path

\* C3: whenever save_to_file has failed with an I/O error (it returned
\* None), the run has ended with save_to_file as its last call: 'logs' was
\* not created, nothing was moved and no mail was sent.
C3_SaveFailureAborts ==
    (original_file_path = Null) =>
        /\ pc = "end"
        /\ calls[Len(calls)] = "save_to_file"
        /\ Count(calls, "os.makedirs") = 0
        /\ Count(calls, "os.rename") = 0
        /\ Count(calls, "send_email") = 0
        /\ email = Unset
        /\ \A f \in files : f.path.dir # "logs"

\* a run in which writing the file failed after the API answered with data
C3_Witness ==
    /\ original_file_path = Null
    /\ failure = Aborted("save_to_file")
    /\ formatted_data # Unset

\* the stage of the pipeline the run has entered: 0 Idle, 1 QueryValidated,
\* 2 NutrientsFetched, 3 ReportRendered, 4 ArtifactSaved, 5 Delivered
Stage ==
    IF email # Unset /\ email.email_sent_successfully THEN 5
    ELSE IF IsPath(original_file_path) THEN 4
    ELSE IF formatted_data # Unset THEN 3
    ELSE IF nutritional_data_raw \notin {Unset, Null} THEN 2
    ELSE IF food_item # Unset THEN 1
    ELSE 0

\* the call that enters each stage after the first
StageCalls ==
    <<"get_nutritional_info", "format_nutritional_data", "save_to_file", "send_email">>

\* C4: every step of a run leaves the stage as it is or enters the next
\* one, in the order Idle, QueryValidated, NutrientsFetched, ReportRendered,
\* ArtifactSaved, Delivered; fetch, render, save and deliver are each called
\* at most once; and once the run has failed, no call is made and no stage
\* entered any more.
C4_StagesInOrderOnce ==
    [][/\ Stage' \in {Stage, Stage + 1}
       /\ \A i \in DOMAIN StageCalls : Count(calls', StageCalls[i]) <= 1
       /\ failure # Null => (calls' = calls /\ Stage' = Stage)
       /\ Stage' >= 2 => calls'[1] = "get_nutritional_info"
       /\ Stage' >= 3 => calls'[2] = "format_nutritional_data"
       /\ Stage' >= 4 => calls'[3] = "save_to_file"
       /\ Stage' = 5 => calls'[Len(calls')] = "send_email"]_vars

\* a run that went through every stage and delivered
C4_Witness ==
    /\ Stage = 5
    /\ calls = <<"get_nutritional_info", "format_nutritional_data", "save_to_file",
                 "os.makedirs", "os.rename", "send_email">>

\* a query the prompt may let through: not empty, letters and whitespace only
ValidQuery(q) == q # <<>> /\ \A i \in DOMAIN q : q[i] \in Letters \cup Whitespace

\* C5: the prompt loop returns only an input that, stripped, is not empty
\* and is made of letters and whitespace; while no such input has been
\* typed the run stays at the prompt and no API request is made, so the
\* query of every API request is not empty and made of letters and
\* whitespace only.
C5_OnlyValidQueriesReachTheApi ==
    /\ food_item # Unset => ValidQuery(food_item.s)
    /\ food_item = Unset => (calls = <<>> /\ http = Unset)
    /\ (food_item = Unset /\ failure = Null) => pc = "get_user_food_input"
    /\ http # Unset => (ValidQuery(http.query) /\ http.query = food_item.s)

\* a run in which the prompt rejected an input and a later one went to the API
C5_Witness == prompts > 0 /\ http # Unset

\* the records of raw data that has a list under 'foods', else none
RecordsOf(raw) ==
    IF raw \notin {Unset, Null} /\ raw.t = "dict" /\ raw.foods \notin {Missing, Null}
    THEN raw.foods.items ELSE <<>>

\* format_nutritional_data has returned a report for the raw data
Rendered == Count(calls, "format_nutritional_data") = 1 /\ formatted_data # Unset

\* the labels of a record block, top to bottom: energy, protein, fat,
\* carbohydrate, fiber, sugar, sodium
BlockLabels ==
    <<"Calories", "Protein", "Total Fat", "Total Carbohydrates", "Dietary Fiber",
      "Sugars", "Sodium">>
BlockKeys ==
    <<"nf_calories", "nf_protein", "nf_total_fat", "nf_total_carbohydrate",
      "nf_dietary_fiber", "nf_sugars", "nf_sodium">>

\* a block is a blank line, the food line, the seven nutrient lines and the
\* separator; the header is line 1 and block j starts after block j - 1
BlockLen == Len(BlockLabels) + 3
BlockLine(report, j, k) == report[1 + (j - 1) * BlockLen + k]
NutrientLineOf(report, j, i) == BlockLine(report, j, 2 + i)

\* the value is present as a finite number
FiniteNumber(x) == x.t \in {"int", "float"}
TwoDecimals(text) == text.k = "decimal" /\ Len(text.frac) = 2

\* C6: in every report, each of the seven nutrient lines of each record
\* shows a number with exactly two decimal digits if the record's value for
\* it is a finite number, and the literal N/A if it is anything else
\* (missing, null, not a number); it shows nothing else.
C6_TwoDecimalsOrNA ==
    Rendered =>
        \A j \in DOMAIN RecordsOf(nutritional_data_raw) : \A i \in DOMAIN BlockKeys :
            LET x == RecordsOf(nutritional_data_raw)[j][BlockKeys[i]]
                text == NutrientLineOf(formatted_data.lines, j, i).text
            IN  /\ FiniteNumber(x) <=> TwoDecimals(text)
                /\ ~FiniteNumber(x) <=> text = [k |-> "N/A"]

\* raw data with no food record: no data at all, no 'foods' key, or 'foods'
\* null or an empty list
ZeroRecords(raw) ==
    \/ raw = Null
    \/ raw.t = "dict" /\ raw.foods \in {Missing, Null, List(<<>>)}

\* C7: called with raw data that has no food record, format_nutritional_data
\* returns the one line 'No nutritional data available.': no header, no
\* record block, no separator.
C7_NoRecordsNoReport ==
    (Count(calls, "format_nutritional_data") = 1 /\ ZeroRecords(nutritional_data_raw)) =>
        formatted_data =
            Text(<<[kind |-> "literal", s |-> "No nutritional data available."]>>)

\* format_nutritional_data was called with {"foods": []}
C7_Witness ==
    /\ Count(calls, "format_nutritional_data") = 1
    /\ nutritional_data_raw = Dict(List(<<>>), TRUE)
    /\ formatted_data # Unset

\* the food-name part of the name of the file save_to_file wrote
SavedFoodName == original_file_path.name.food

\* C8: the food-name part of the file name save_to_file makes has only
\* alphanumeric characters and underscores, and no space: it is food_item
\* without the characters that are not alphanumeric, a space or an
\* underscore, each space turned into an underscore.
C8_FileNameSanitized ==
    IsPath(original_file_path) =>
        LET q == food_item.s
            kept == {i \in DOMAIN q : q[i] \in Letters \cup Digits \cup {" ", "_"}}
        IN  /\ \A i \in DOMAIN SavedFoodName :
                  SavedFoodName[i] \in Letters \cup Digits \cup {"_"}
            /\ Len(SavedFoodName) = Cardinality(kept)
            /\ Count(SavedFoodName, "_") = Count(q, " ") + Count(q, "_")
            /\ \A c \in Letters \cup Digits : Count(SavedFoodName, c) = Count(q, c)

\* save_to_file wrote the file for a food_item with a space and a character
\* that is dropped
C8_Witness ==
    /\ IsPath(original_file_path)
    /\ Count(food_item.s, " ") > 0
    /\ Count(food_item.s, "!") > 0
    /\ SavedFoodName # <<>>

\* C9: whenever get_nutritional_info has returned data (an answer whose
\* 'foods' is not empty) and format_nutritional_data has been called with
\* it, the call has returned a report: it raises no error.
C9_FormatNeverRaises ==
    (Count(calls, "format_nutritional_data") = 1 /\ truthy(nutritional_data_raw)) =>
        /\ formatted_data # Unset
        /\ failure # Uncaught("format_nutritional_data", "AttributeError")
        /\ failure # Uncaught("format_nutritional_data", "OverflowError")

IsSeparator(line) ==
    line.kind = "separator" /\ Len(line.s) = 30 /\ \A i \in DOMAIN line.s : line.s[i] = "-"

\* C10: a report for n >= 1 records is the header followed by n blocks, one
\* per record in the order of the input; the block of a record names it,
\* lists energy, protein, fat, carbohydrate, fiber, sugar and sodium in that
\* order, each from the record's own value, and ends with a line of exactly
\* 30 dashes, so that the report has exactly n such lines.
C10_HeaderThenBlocks ==
    LET records == RecordsOf(nutritional_data_raw)
        n == Len(records)
        report == formatted_data.lines
    IN  (Rendered /\ n >= 1) =>
            /\ Len(report) = 1 + n * BlockLen
            /\ report[1] = [kind |-> "literal", s |-> "--- Nutritional Information ---"]
            /\ Count([i \in DOMAIN report |-> IsSeparator(report[i])], TRUE) = n
            /\ \A j \in 1..n :
                  /\ BlockLine(report, j, 1).kind = "blank"
                  /\ BlockLine(report, j, 2).kind = "food"
                  /\ BlockLine(report, j, 2).name =
                        IF records[j].food_name = Missing THEN <<"N", "/", "A">>
                        ELSE title(records[j].food_name.s)
                  /\ \A i \in DOMAIN BlockLabels :
                        LET x == records[j][BlockKeys[i]]
                            line == NutrientLineOf(report, j, i)
                        IN  /\ line.kind = "nutrient"
                            /\ line.label = BlockLabels[i]
                            /\ x.t \in {"missing", "null", "str"} <=> line.text = [k |-> "N/A"]
                            /\ x.t = "int" =>
                                 (line.text.k = "decimal" /\ line.text.whole = x.v)
                  /\ IsSeparator(BlockLine(report, j, BlockLen))

\* a report for two different records
C10_Witness ==
    /\ Rendered
    /\ Len(RecordsOf(nutritional_data_raw)) = 2
    /\ RecordsOf(nutritional_data_raw)[1] # RecordsOf(nutritional_data_raw)[2]
    /\ Count([i \in DOMAIN formatted_data.lines |->
                 IsSeparator(formatted_data.lines[i])], TRUE) = 2

\* C11: a call of send_email that fails (the login is refused, or
\* connecting or sending raises) changes no file: the saved file is still at
\* the path it had before the call, with the report as its contents, and
\* main() ends without an exception, having only reported the failure.
C11_DeliveryFailureKeepsArtifact ==
    [][(pc = "send_email" /\ pc' # pc /\ ~email'.email_sent_successfully) =>
          /\ files' = files
          /\ logs_dir' = logs_dir
          /\ original_file_path' = original_file_path
          /\ \E f \in files' : f.path = original_file_path /\ f.data = formatted_data
          /\ pc' = "end"
          /\ failure' = Null]_vars

\* a run whose mail was refused at the login, the file being in 'logs'
C11_Witness ==
    /\ email # Unset
    /\ email.smtp = "login"
    /\ ~email.email_sent_successfully
    /\ \E f \in files : f.path = original_file_path /\ f.path.dir = "logs"

\* C12: when send_email could not read the file to attach, it has still
\* opened the SMTP session for a message with the text body and no
\* attachment, has handed the message over whenever connecting and logging
\* in succeeded, and has returned True exactly when that send succeeded.
C12_UnreadableAttachmentStillSends ==
    (email # Unset /\ email.attachment = Null) =>
        /\ email.smtp \in {"ok", "connect", "login", "send"}
        /\ email.body = formatted_data
        /\ email.smtp \notin {"connect", "login"} => email.submitted
        /\ email.email_sent_successfully <=> email.smtp = "ok"

\* a run whose file was on disk but unreadable, and whose mail went out
\* without it
C12_Witness ==
    /\ email # Unset
    /\ email.attachment = Null
    /\ \E f \in files : f.path = email.attachment_path
    /\ email.submitted
    /\ email.email_sent_successfully

====
